---- MODULE Spec2Model ----
(***************************************************************************)
(* Church attendance application (src/attendance_app.py).                  *)
(*                                                                         *)
(* The state is the two CSV files the application keeps (members.csv and   *)
(* all_attendance.csv) and what the last script run showed on the page.    *)
(* One action is one Streamlit script run: a run of the attendance page in *)
(* which "Submit Attendance" is pressed, a run of the member management    *)
(* page in which "Confirm Upload" is pressed, a run of a read-only page.   *)
(*                                                                         *)
(* A CSV file is modelled as the bag of its rows: the order of the rows is *)
(* not modelled, their multiplicity is.                                    *)
(***************************************************************************)
EXTENDS Naturals, FiniteSets, Sequences, Bags

VARIABLES
    member_file,   \* MEMBER_FILE, members.csv
    master_file,   \* MASTER_FILE, all_attendance.csv
    ui,            \* what the last script run showed: widget values and messages
    master_saves,  \* the save_data_safely(_, MASTER_FILE) calls of the last run
    runs           \* per browser session: the submit run in progress, if any

vars == <<member_file, master_file, ui, master_saves, runs>>

(***************************************************************************)
(* Bounds and input universes                                              *)
(***************************************************************************)
\* Number of distinct Sundays the date picker can return.
MaxDate == 2

Sundays == 1..MaxDate

\* Rows a member CSV can contain.  Membership numbers are unique over the
\* universe, so every uploaded roster has unique membership numbers.
MemberRows ==
    { [Number |-> 1, Name |-> "Ann", Group |-> "G1"],
      [Number |-> 2, Name |-> "Bob", Group |-> "G1"],
      [Number |-> 3, Name |-> "Ann", Group |-> "G2"] }

Groups == {m.Group : m \in MemberRows}

Names == {m.Name : m \in MemberRows}

(***************************************************************************)
(* Date texts: pd.to_datetime(...).dt.strftime("%Y-%m-%d")                 *)
(***************************************************************************)
\* A Date cell of a CSV is a text: the calendar day it denotes together with
\* the textual format it is written in.  "iso" is YYYY-MM-DD; a cell that
\* does not parse as a date has format "bad"; NaN is the missing value.
NaT == 0

NaN == [fmt |-> "nan", day |-> NaT]

ParsedFormats == {"iso", "slash"}

to_datetime(text) ==
    IF text.fmt \in ParsedFormats THEN text.day ELSE NaT

strftime(day) ==
    IF day = NaT THEN NaN ELSE [fmt |-> "iso", day |-> day]

\* Date cells left as they are written.
KeepText(text) == text

NormalizeText(text) == strftime(to_datetime(text))

HasDateColumn(df) == \A r \in DOMAIN df : "Date" \in DOMAIN r

\* df["Date"] = pd.to_datetime(df["Date"], errors="coerce").dt.strftime(...)
\* (a frame whose Date cells are all in the normal form is mapped to itself)
NormalizeDates(df) ==
    IF DOMAIN df # {} /\ HasDateColumn(df)
    THEN IF \A r \in DOMAIN df : NormalizeText(r.Date) = r.Date
         THEN df
         ELSE BagOfAll(LAMBDA r : [r EXCEPT !.Date = NormalizeText(r.Date)], df)
    ELSE df

(***************************************************************************)
(* Files                                                                   *)
(***************************************************************************)
NoFile == [exists |-> FALSE, rows |-> EmptyBag]

FileOf(df) == [exists |-> TRUE, rows |-> df]

IsEmpty(df) == DOMAIN df = {}

\* load_data_safely: the frame read, and whether "Error loading data" was
\* shown.  readOk = FALSE is a read that raises.
load_data_safely(file, readOk) ==
    IF ~readOk
    THEN [df |-> EmptyBag, error |-> TRUE]
    ELSE IF file.exists
         THEN [df |-> NormalizeDates(file.rows), error |-> FALSE]
         ELSE [df |-> EmptyBag, error |-> FALSE]

\* save_data_safely: the file after the call and the value returned.
\* writeOk = FALSE is a write that raises; the file is then left as it was
\* (a store without partial writes).
save_data_safely(df, file, writeOk) ==
    IF writeOk
    THEN [file |-> FileOf(NormalizeDates(df)), ok |-> TRUE]
    ELSE [file |-> file, ok |-> FALSE]

(***************************************************************************)
(* attendance_page                                                         *)
(***************************************************************************)
\* df[mask]: the rows of df that are in keep, with their multiplicity.
SelectRows(df, keep) == [r \in DOMAIN df \cap keep |-> df[r]]

\* members_df[members_df["Group"] == group]
GroupRows(members_df, group) ==
    SelectRows(members_df, {m \in DOMAIN members_df : m.Group = group})

\* A group selectbox that offers every group, in the roster or not.
EveryGroupOffered(members_df) == Groups

\* sorted(members_df["Group"].dropna().unique())
available_groups(members_df) == {m.Group : m \in DOMAIN members_df}

\* A multiselect that offers every name, of the group or not.
EveryNameOffered(group_df) == Names

\* The options of the "Present Members" multiselect: the names of
\* filtered_members.  The search box keeps any subset of the group's rows
\* whose name contains the search term; with an empty term it keeps all, so
\* a selection is any set of names of the group.
multiselect_options(group_df) == {m.Name : m \in DOMAIN group_df}

\* (master_df["Date"] == sunday_str) & (master_df["Group"] == group)
MatchesKey(r, sunday_str, group) == r.Date = sunday_str /\ r.Group = group

\* existing = master_df[key match], when master_df is not empty
ExistingRows(master_df, sunday_str, group) ==
    IF ~IsEmpty(master_df) /\ HasDateColumn(master_df)
    THEN SelectRows(master_df,
                    {r \in DOMAIN master_df : MatchesKey(r, sunday_str, group)})
    ELSE EmptyBag

\* OutputRows with the selection ignored: a row for every member of the group.
OutputRowsWholeGroup(group_df, sunday_str, present) ==
    BagOfAll(LAMBDA m : [Date |-> sunday_str, Number |-> m.Number,
                         Name |-> m.Name, Group |-> m.Group,
                         Status |-> "Present"],
             group_df)

\* new_present_df / output: the roster rows of the group whose Full Name is
\* in the selection, each with Status "Present" and the selected date.
OutputRows(group_df, sunday_str, present) ==
    BagOfAll(LAMBDA m : [Date |-> sunday_str, Number |-> m.Number,
                         Name |-> m.Name, Group |-> m.Group,
                         Status |-> "Present"],
             SelectRows(group_df, {m \in DOMAIN group_df : m.Name \in present}))

\* RemoveExisting that removes nothing: a resubmission appends.
KeepExisting(master_df, sunday_str, group) == master_df

\* RemoveExisting that matches on the date alone.
RemoveWholeDate(master_df, sunday_str, group) ==
    SelectRows(master_df, {r \in DOMAIN master_df : r.Date # sunday_str})

\* master_df[~(key match)]
RemoveExisting(master_df, sunday_str, group) ==
    SelectRows(master_df,
               {r \in DOMAIN master_df : ~MatchesKey(r, sunday_str, group)})

\* updated_df
UpdatedLedger(master_df, output, sunday_str, group) ==
    IF ~IsEmpty(master_df)
    THEN RemoveExisting(master_df, sunday_str, group) (+) output
    ELSE output

\* SaveCalls as a clear followed by a rewrite: two calls.
TwoStepSaveCalls(master_df, output, sunday_str, group) ==
    << RemoveExisting(master_df, sunday_str, group),
       UpdatedLedger(master_df, output, sunday_str, group) >>

\* The frames the submit handler passes to save_data_safely(_, MASTER_FILE),
\* in the order of the calls.
SaveCalls(master_df, output, sunday_str, group) ==
    << UpdatedLedger(master_df, output, sunday_str, group) >>

\* ProceedsToSave without the return after the error.
ProceedsAlways(present) == TRUE

\* "if not present: st.error(...); return": the handler goes on to build and
\* save the records only with a non-empty selection.
ProceedsToSave(present) == present # {}

\* SaveMessages with the returned value ignored.
AlwaysSavedMessage(saved_ok) == {"saved"}

\* What the handler shows for the value save_data_safely returned.
SaveMessages(saved_ok) == IF saved_ok THEN {"saved"} ELSE {"save_failed"}

\* The calls applied to the file one after the other.
RECURSIVE ApplySaves(_, _, _)
ApplySaves(file, calls, writeOk) ==
    IF calls = << >>
    THEN [file |-> file, ok |-> TRUE, log |-> << >>]
    ELSE LET first == save_data_safely(Head(calls), file, writeOk)
             rest  == ApplySaves(first.file, Tail(calls), writeOk)
         IN  [file |-> rest.file,
              ok   |-> IF Tail(calls) = << >> THEN first.ok ELSE rest.ok,
              log  |-> << [df |-> Head(calls), ok |-> first.ok] >> \o rest.log]

NoWidgets ==
    [date |-> NaT, group |-> "", present |-> {}, found |-> 0, saved |-> 0,
     marked |-> 0, shown |-> 0,
     pressed |-> {},            \* the buttons that read True in the run
     delete_confirm |-> "",     \* the text of the confirmation box, if shown
     confirm_shown |-> FALSE,   \* "Confirm Deletion" is on the page
     session_flags |-> {},      \* st.session_state attributes left set
     rerun |-> FALSE]           \* the run ended in st.rerun()

Page(page, messages, widgets) ==
    [page |-> page, messages |-> messages, date |-> widgets.date,
     group |-> widgets.group, present |-> widgets.present,
     found |-> widgets.found, saved |-> widgets.saved,
     marked |-> widgets.marked, shown |-> widgets.shown,
     pressed |-> widgets.pressed, delete_confirm |-> widgets.delete_confirm,
     confirm_shown |-> widgets.confirm_shown,
     session_flags |-> widgets.session_flags, rerun |-> widgets.rerun]

\* One run of attendance_page with "Submit Attendance" pressed: the master
\* file after the run, the page shown and the saves made.
attendance_page(members, master, sunday, group, present, membersOk, masterOk, writeOk) ==
    LET members_load == load_data_safely(members, membersOk)
        members_df   == members_load.df
        sunday_str   == strftime(sunday)
        group_df     == GroupRows(members_df, group)
        master_load  == load_data_safely(master, masterOk)
        master_df    == master_load.df
        existing     == ExistingRows(master_df, sunday_str, group)
        output       == OutputRows(group_df, sunday_str, present)
        saves        == ApplySaves(master,
                                   SaveCalls(master_df, output, sunday_str, group),
                                   writeOk)
        widgets      == [NoWidgets EXCEPT !.date = sunday, !.group = group,
                                            !.present = present,
                                            !.found = BagCardinality(existing),
                                            !.pressed = {"submit"}]
        shown        == (IF master_load.error THEN {"load_error"} ELSE {})
                        \cup (IF IsEmpty(existing) THEN {} ELSE {"found_existing"})
                        \cup (IF present = {} THEN {"empty_selection"} ELSE {})
    IN  IF IsEmpty(members_df)
        THEN [master |-> master,
              ui     |-> Page("attendance",
                              {"no_members"} \cup
                                (IF members_load.error THEN {"load_error"} ELSE {}),
                              NoWidgets),
              saves  |-> << >>]
        ELSE IF ~ProceedsToSave(present)
        THEN [master |-> master,
              ui     |-> Page("attendance", shown, widgets),
              saves  |-> << >>]
        ELSE [master |-> saves.file,
              ui     |-> Page("attendance", shown \cup SaveMessages(saves.ok),
                              [widgets EXCEPT !.saved = BagCardinality(output),
                                              !.marked = Cardinality(present)]),
              saves  |-> saves.log]

\* manage_members with a valid file and "Confirm Upload" pressed.
manage_members(members, new_df, writeOk) ==
    LET save == save_data_safely(new_df, members, writeOk)
    IN  [members |-> save.file,
         ui |-> Page("members",
                     IF save.ok THEN {"uploaded"} ELSE {"upload_failed"},
                     [NoWidgets EXCEPT !.pressed = {"confirm_upload"},
                                       !.rerun = save.ok])]

\* The columns an upload must have; the row fields Number and Name stand for
\* the CSV columns "Membership Number" and "Full Name".
required_cols == {"Number", "Name", "Group"}

NoMissingCols(columns) == {}

missing_cols(columns) == required_cols \ columns

\* The frame read from an uploaded CSV that has the given columns.
UploadedFrame(columns, rows) ==
    SetToBag({[c \in columns |-> row[c]] : row \in rows})

\* The upload section of manage_members with a file chosen: the file is
\* checked for the required columns and saved only on "Confirm Upload".
upload_section(members, columns, rows, confirm_upload, writeOk) ==
    IF missing_cols(columns) # {}
    THEN [members |-> members,
          ui |-> Page("members", {"missing_columns"}, NoWidgets)]
    ELSE IF confirm_upload
         THEN manage_members(members, UploadedFrame(columns, rows), writeOk)
         ELSE [members |-> members,
               ui |-> Page("members", {"format_ok"}, NoWidgets)]

\* The file is removed with the first button pressed and DELETE typed,
\* without the second button.
DeletionTyped(clear_all, confirm, confirm_deletion) ==
    clear_all /\ confirm = "DELETE"

\* The nested conditions under which manage_data removes the ledger file.
DeletionConfirmed(clear_all, confirm, confirm_deletion) ==
    clear_all /\ confirm = "DELETE" /\ confirm_deletion

\* The cleanup section of manage_data in one run, given what its widgets
\* return: the two buttons and the text of the confirmation box.  The box is
\* shown inside the branch of the first button, the second button inside the
\* branch of the text.
manage_data(master, clear_all, confirm, confirm_deletion) ==
    LET widgets ==
            [NoWidgets EXCEPT
               !.pressed = (IF clear_all THEN {"clear_data"} ELSE {})
                             \cup (IF clear_all /\ confirm = "DELETE"
                                        /\ confirm_deletion
                                   THEN {"confirm_deletion"} ELSE {}),
               !.delete_confirm = IF clear_all THEN confirm ELSE "",
               !.confirm_shown = clear_all /\ confirm = "DELETE"]
    IN  IF DeletionConfirmed(clear_all, confirm, confirm_deletion)
        THEN IF master.exists
             THEN [master |-> NoFile,
                   ui |-> Page("data", {"cleared"}, [widgets EXCEPT !.rerun = TRUE])]
             ELSE [master |-> master,
                   ui |-> Page("data", {"no_data_to_clear"}, widgets)]
        ELSE [master |-> master,
              ui |-> Page("data",
                          IF clear_all THEN {"confirm_prompt"} ELSE {},
                          widgets)]

\* history_page: a read-only page over load_data_safely(MASTER_FILE).
history_page(master, readOk) ==
    LET load == load_data_safely(master, readOk)
    IN  Page("history",
             (IF load.error THEN {"load_error"} ELSE {})
               \cup (IF IsEmpty(load.df) THEN {"no_records"} ELSE {}),
             NoWidgets)

\* The calendar of the history filters, in days.  The dates 1..MaxDate are
\* one week apart.
WeekDays == 7

MonthDays == 30

DayNumber(day) == day * WeekDays

\* Readings of datetime.now(): on the first date, a week after the last date,
\* and more than a month after it.
Clock == {DayNumber(1), DayNumber(MaxDate + 1), DayNumber(MaxDate) + MonthDays + 1}

QuickFilters == {"Selected Date", "Last Week", "Last Month", "All Time"}

AllGroups == "All Groups"

DateSelectedWithinMonth(r, selected_date, quick_filter, now) ==
    /\ to_datetime(r.Date) # NaT
    /\ DayNumber(to_datetime(r.Date)) + MonthDays >= now

\* The date condition of the history page on a row, now being datetime.now().
DateSelected(r, selected_date, quick_filter, now) ==
    CASE quick_filter = "Last Week" ->
            /\ to_datetime(r.Date) # NaT
            /\ DayNumber(to_datetime(r.Date)) + WeekDays >= now
      [] quick_filter = "Last Month" ->
            /\ to_datetime(r.Date) # NaT
            /\ DayNumber(to_datetime(r.Date)) + MonthDays >= now
      [] quick_filter = "All Time" -> TRUE
      [] OTHER -> to_datetime(r.Date) = selected_date

\* filtered_df of the history page.
history_filter(df, selected_date, selected_group, quick_filter, now) ==
    SelectRows(df, {r \in DOMAIN df :
                      /\ DateSelected(r, selected_date, quick_filter, now)
                      /\ selected_group # AllGroups => r.Group = selected_group})

\* history_page with its three filters chosen.
history_page_filtered(master, selected_date, selected_group, quick_filter, now) ==
    LET load        == load_data_safely(master, TRUE)
        filtered_df == history_filter(load.df, selected_date, selected_group,
                                      quick_filter, now)
    IN  IF IsEmpty(load.df)
        THEN Page("history", {"no_records"}, NoWidgets)
        ELSE IF IsEmpty(filtered_df)
             THEN Page("history", {"no_records_for_filters"}, NoWidgets)
             ELSE Page("history", {},
                       [NoWidgets EXCEPT !.shown = BagCardinality(filtered_df)])

\* The session flag is left set when it is handled.
FlagsKept(flags, handled) == flags

\* delattr(st.session_state, handled)
FlagsAfterDelattr(flags, handled) == flags \ {handled}

\* Lines 427-444: the two buttons set a session flag; a flag that is set is
\* handled by assigning the local variable present, deleting the flag and
\* calling st.rerun(), which ends the run there.  The result is the flags
\* left in the session, whether the run ended in st.rerun(), and the value of
\* the local variable present.
select_clear_buttons(flags, options, present, select_all, clear_all) ==
    LET set == flags \cup (IF select_all THEN {"select_all_members"} ELSE {})
                     \cup (IF clear_all THEN {"clear_all_members"} ELSE {})
    IN  IF "select_all_members" \in set
        THEN [flags |-> FlagsAfterDelattr(set, "select_all_members"),
              rerun |-> TRUE, present |-> options]
        ELSE IF "clear_all_members" \in set
        THEN [flags |-> FlagsAfterDelattr(set, "clear_all_members"),
              rerun |-> TRUE, present |-> {}]
        ELSE [flags |-> set, rerun |-> FALSE, present |-> present]

\* One run of attendance_page in a session: flags are the session flags at
\* the start of the run, present the value the multiselect returns, button
\* the button that reads True ("" for none).  The page keeps the value of
\* the multiselect, not the local variable present, for the next run.
attendance_run(members, master, flags, sunday, group, present, button) ==
    LET members_df == load_data_safely(members, TRUE).df
        group_df   == GroupRows(members_df, group)
        master_df  == load_data_safely(master, TRUE).df
        existing   == ExistingRows(master_df, strftime(sunday), group)
        handled    == select_clear_buttons(flags, multiselect_options(group_df),
                                           present, button = "select_all",
                                           button = "clear_all")
        widgets    == [NoWidgets EXCEPT
                         !.date = sunday, !.group = group, !.present = present,
                         !.found = BagCardinality(existing),
                         !.pressed = IF button = "" THEN {} ELSE {button},
                         !.session_flags = handled.flags,
                         !.rerun = handled.rerun]
        shown      == IF IsEmpty(existing) THEN {} ELSE {"found_existing"}
        submit     == attendance_page(members, master, sunday, group,
                                      handled.present, TRUE, TRUE, TRUE)
    IN  IF IsEmpty(members_df)
        THEN [master |-> master,
              ui     |-> Page("attendance", {"no_members"},
                              [NoWidgets EXCEPT !.session_flags = flags]),
              saves  |-> << >>]
        ELSE IF handled.rerun \/ button # "submit"
        THEN [master |-> master,
              ui     |-> Page("attendance", shown, widgets),
              saves  |-> << >>]
        ELSE [master |-> submit.master,
              ui     |-> [submit.ui EXCEPT !.session_flags = handled.flags],
              saves  |-> submit.saves]

\* The run that follows st.rerun(): the page that was shown runs again with
\* the values its widgets hold and no button reading True.
rerun_page(members, master, shown) ==
    CASE shown.page = "attendance" ->
            attendance_run(members, master, shown.session_flags, shown.date,
                           shown.group, shown.present, "").ui
      [] shown.page = "members" ->
            [upload_section(members, required_cols, {}, FALSE, TRUE).ui
               EXCEPT !.session_flags = shown.session_flags]
      [] shown.page = "data" ->
            [manage_data(master, FALSE, "", FALSE).ui
               EXCEPT !.session_flags = shown.session_flags]
      [] OTHER ->
            Page(shown.page, {}, [NoWidgets EXCEPT
                                    !.session_flags = shown.session_flags])

(***************************************************************************)
(* The state machine                                                       *)
(***************************************************************************)
\* Streamlit runs the script of each browser session in a thread of its own.
Sessions == {"A", "B"}

\* No submit run in progress in a session.
NoRun == [pc |-> "idle", sunday |-> NaT, group |-> "", present |-> {},
          members |-> NoFile, master |-> NoFile, saved_at |-> 0]

Init ==
    /\ member_file = NoFile
    /\ master_file = NoFile
    /\ ui = Page("start", {}, NoWidgets)
    /\ master_saves = << >>
    /\ runs = [s \in Sessions |-> NoRun]

\* The group comes from a selectbox over available_groups and the selection
\* from the multiselect (both read from the members frame of the same run);
\* with an empty members frame the page returns before it shows either.
WidgetValues(group, present, membersReadOk) ==
    LET members_df == load_data_safely(member_file, membersReadOk).df
    IN  \/ IsEmpty(members_df) /\ present = {}
        \/ /\ group \in available_groups(members_df)
           /\ present \subseteq multiselect_options(GroupRows(members_df, group))

SubmitAttendance(sunday, group, present, membersReadOk, masterReadOk, writeOk) ==
    LET run == attendance_page(member_file, master_file, sunday, group, present,
                               membersReadOk, masterReadOk, writeOk)
    IN  /\ master_file' = run.master
        /\ ui' = run.ui
        /\ master_saves' = run.saves
        /\ UNCHANGED <<member_file, runs>>

\* A roster upload that writes the roster file's rows into the ledger file.
UploadRosterToMaster(rows, writeOk) ==
    LET run == manage_members(master_file, SetToBag(rows), writeOk)
    IN  /\ master_file' = run.members
        /\ ui' = run.ui
        /\ master_saves' = << >>
        /\ UNCHANGED <<member_file, runs>>

UploadRoster(rows, writeOk) ==
    LET run == manage_members(member_file, SetToBag(rows), writeOk)
    IN  /\ member_file' = run.members
        /\ ui' = run.ui
        /\ master_saves' = << >>
        /\ UNCHANGED <<master_file, runs>>

ViewHistory(readOk) ==
    /\ ui' = history_page(master_file, readOk)
    /\ master_saves' = << >>
    /\ UNCHANGED <<member_file, master_file, runs>>

\* Serial use with a store that answers: the deployed application.
MarkAttendance ==
    \E sunday \in Sundays, group \in Groups, present \in SUBSET Names :
        /\ WidgetValues(group, present, TRUE)
        /\ SubmitAttendance(sunday, group, present, TRUE, TRUE, TRUE)

ConfirmUpload == \E rows \in SUBSET MemberRows : UploadRoster(rows, TRUE)

View == ViewHistory(TRUE)

Next == MarkAttendance \/ ConfirmUpload \/ View

Spec == Init /\ [][Next]_vars

\* The submit handler given any selection of names, as recordSession is
\* given presentMemberIds: the selection is not confined to the options.
MarkAttendanceAnySelection ==
    \E sunday \in Sundays, group \in Groups, present \in SUBSET Names :
        /\ WidgetValues(group, {}, TRUE)
        /\ SubmitAttendance(sunday, group, present, TRUE, TRUE, TRUE)

NextOpen == MarkAttendanceAnySelection \/ ConfirmUpload \/ View

SpecOpen == Init /\ [][NextOpen]_vars

\* The history page with filters chosen.  The selected date matters under
\* "Selected Date" only, the clock under the two relative filters only.
ViewHistoryFiltered(selected_date, selected_group, quick_filter, now) ==
    /\ ui' = history_page_filtered(master_file, selected_date, selected_group,
                                   quick_filter, now)
    /\ master_saves' = << >>
    /\ UNCHANGED <<member_file, master_file, runs>>

ViewFiltered ==
    \E selected_group \in Groups \cup {AllGroups} :
        \/ \E selected_date \in Sundays, now \in {WeekDays} :
               ViewHistoryFiltered(selected_date, selected_group,
                                   "Selected Date", now)
        \/ \E now \in Clock, quick_filter \in {"Last Week", "Last Month"} :
               ViewHistoryFiltered(MaxDate, selected_group, quick_filter, now)
        \/ ViewHistoryFiltered(MaxDate, selected_group, "All Time", WeekDays)

NextHistory == Next \/ ViewFiltered

SpecHistory == Init /\ [][NextHistory]_vars

\* The administration pages with their widgets as inputs of the run: a file
\* with any columns in the uploader, and any values of the cleanup widgets.
UploadFile(columns, rows, confirm_upload, writeOk) ==
    LET run == upload_section(member_file, columns, rows, confirm_upload, writeOk)
    IN  /\ member_file' = run.members
        /\ ui' = run.ui
        /\ master_saves' = << >>
        /\ UNCHANGED <<master_file, runs>>

ClearAttendance(clear_all, confirm, confirm_deletion) ==
    LET run == manage_data(master_file, clear_all, confirm, confirm_deletion)
    IN  /\ master_file' = run.master
        /\ ui' = run.ui
        /\ master_saves' = << >>
        /\ UNCHANGED <<member_file, runs>>

UploadAttempt ==
    \E columns \in SUBSET required_cols, confirm_upload \in BOOLEAN :
        \E rows \in IF columns = required_cols THEN SUBSET MemberRows
                                               ELSE {MemberRows} :
            UploadFile(columns, rows, confirm_upload, TRUE)

\* Texts of the confirmation box: nothing, the word asked for, and the same
\* word in lower case.
ConfirmTexts == {"", "DELETE", "delete"}

DataCleanup ==
    \E clear_all \in BOOLEAN, confirm \in ConfirmTexts,
       confirm_deletion \in BOOLEAN :
        ClearAttendance(clear_all, confirm, confirm_deletion)

NextAdmin == Next \/ UploadAttempt \/ DataCleanup

SpecAdmin == Init /\ [][NextAdmin]_vars

\* A ledger file that was not written by this program (an earlier variant of
\* the page, or a spreadsheet edit): one service of date 1 for the first
\* group, the first member's row twice, and Date cells that are not in the
\* YYYY-MM-DD form.  Each member's rows are in a format pd.to_datetime parses
\* ("slash", MM/DD/YYYY) or in one it does not ("bad").
LegacyFormats == {"slash", "bad"}

LegacyRow(m, fmt) ==
    [Date |-> [fmt |-> fmt, day |-> 1], Number |-> m.Number, Name |-> m.Name,
     Group |-> m.Group, Status |-> "Present"]

LegacyService == {m \in MemberRows : m.Group = "G1"}

LegacyFiles ==
    {FileOf(BagOfAll(LAMBDA m : LegacyRow(m, fmts[m]), SetToBag(LegacyService))
              (+) SetToBag({LegacyRow(m, fmts[m]) : m \in {n \in LegacyService :
                                                          n.Name = "Ann"}})) :
       fmts \in [LegacyService -> LegacyFormats]}

InitLegacy ==
    /\ member_file = NoFile
    /\ master_file \in LegacyFiles
    /\ ui = Page("start", {}, NoWidgets)
    /\ master_saves = << >>
    /\ runs = [s \in Sessions |-> NoRun]

UploadWholeRoster == UploadRoster(MemberRows, TRUE)

NextLegacy == MarkAttendance \/ UploadWholeRoster

SpecLegacy == InitLegacy /\ [][NextLegacy]_vars

\* Rosters in which two members of one group have the same full name.
NamesakeRows ==
    { [Number |-> 1, Name |-> "Ann", Group |-> "G1"],
      [Number |-> 2, Name |-> "Bob", Group |-> "G1"],
      [Number |-> 4, Name |-> "Ann", Group |-> "G1"] }

ConfirmUploadNamesakes == \E rows \in SUBSET NamesakeRows : UploadRoster(rows, TRUE)

NextNamesakes == MarkAttendance \/ ConfirmUploadNamesakes

SpecNamesakes == Init /\ [][NextNamesakes]_vars

\* Member CSVs that have, besides the required columns, a column named Date
\* (the day a member joined, say), written MM/DD/YYYY or as a text that is
\* not a date.
DatedMemberRows ==
    { [Number |-> 1, Name |-> "Ann", Group |-> "G1",
       Date |-> [fmt |-> "slash", day |-> 1]],
      [Number |-> 2, Name |-> "Bob", Group |-> "G1",
       Date |-> [fmt |-> "bad", day |-> 1]] }

ConfirmUploadDated == \E rows \in SUBSET DatedMemberRows : UploadRoster(rows, TRUE)

NextDatedUpload == Next \/ ConfirmUploadDated

SpecDatedUpload == Init /\ [][NextDatedUpload]_vars

\* The attendance page over the roster of the whole congregation.
NextWholeRoster == MarkAttendance \/ UploadWholeRoster

SpecWholeRoster == Init /\ [][NextWholeRoster]_vars

\* One browser session, one interaction per run: a button reads True only
\* in the run its press causes, a widget keeps its value from run to run
\* while the script keeps showing it and loses it in a run that does not
\* show it, and a run that ends in st.rerun() is followed at once by a run
\* of the same page.
SessionPage(page_ui) == [page_ui EXCEPT !.session_flags = ui.session_flags]

\* The user opens the attendance page or changes its date, group or selection.
ChooseAttendance(sunday, group, present) ==
    LET run == attendance_run(member_file, master_file, ui.session_flags,
                              sunday, group, present, "")
    IN  /\ ~ui.rerun
        /\ WidgetValues(group, present, TRUE)
        /\ ui' = run.ui
        /\ master_saves' = << >>
        /\ UNCHANGED <<member_file, master_file, runs>>

\* The user presses "Select All", "Clear All" or "Submit Attendance" on the
\* attendance page as it is shown.
PressAttendanceButton(button) ==
    LET run == attendance_run(member_file, master_file, ui.session_flags,
                              ui.date, ui.group, ui.present, button)
    IN  /\ ~ui.rerun
        /\ ui.page = "attendance"
        /\ ui.group # ""
        /\ master_file' = run.master
        /\ ui' = run.ui
        /\ master_saves' = run.saves
        /\ UNCHANGED <<member_file, runs>>

\* The user confirms the upload of a member list.
SessionUpload(rows) ==
    LET run == manage_members(member_file, SetToBag(rows), TRUE)
    IN  /\ ~ui.rerun
        /\ member_file' = run.members
        /\ ui' = SessionPage(run.ui)
        /\ master_saves' = << >>
        /\ UNCHANGED <<master_file, runs>>

\* The user opens the data-management page.
OpenData ==
    /\ ~ui.rerun
    /\ ui.page # "data"
    /\ ui' = SessionPage(manage_data(master_file, FALSE, "", FALSE).ui)
    /\ master_saves' = << >>
    /\ UNCHANGED <<member_file, master_file, runs>>

\* The widgets of the cleanup section that are on the page as shown: the
\* first button always, the confirmation box after a run in which the first
\* button read True, the second button after a run that reached it.
CleanupWidgetsShown ==
    {"clear_data"}
      \cup (IF "clear_data" \in ui.pressed THEN {"delete_confirm"} ELSE {})
      \cup (IF ui.confirm_shown THEN {"confirm_deletion"} ELSE {})

\* The user acts on one widget of the cleanup section: presses a button, or
\* types a text in the confirmation box.  In the run this causes, the other
\* button reads False, and the box returns the text it holds if it is shown.
DataInteraction(widget, text) ==
    LET held == IF "delete_confirm" \in CleanupWidgetsShown
                THEN IF widget = "delete_confirm" THEN text ELSE ui.delete_confirm
                ELSE ""
        run  == manage_data(master_file, widget = "clear_data", held,
                            widget = "confirm_deletion")
    IN  /\ ~ui.rerun
        /\ ui.page = "data"
        /\ widget \in CleanupWidgetsShown
        /\ master_file' = run.master
        /\ ui' = SessionPage(run.ui)
        /\ master_saves' = << >>
        /\ UNCHANGED <<member_file, runs>>

\* The user presses "Refresh Application" on the settings page.
Refresh ==
    /\ ~ui.rerun
    /\ ui' = SessionPage(Page("settings", {},
                              [NoWidgets EXCEPT !.pressed = {"refresh"},
                                                !.rerun = TRUE]))
    /\ master_saves' = << >>
    /\ UNCHANGED <<member_file, master_file, runs>>

\* The run Streamlit starts after st.rerun().
Rerun ==
    /\ ui.rerun
    /\ ui' = rerun_page(member_file, master_file, ui)
    /\ master_saves' = << >>
    /\ UNCHANGED <<member_file, master_file, runs>>

Choose ==
    \E sunday \in Sundays, group \in Groups, present \in SUBSET Names :
        ChooseAttendance(sunday, group, present)

PressButton ==
    \E button \in {"select_all", "clear_all", "submit"} :
        PressAttendanceButton(button)

UploadInSession == SessionUpload(MemberRows)

Cleanup ==
    \E widget \in {"clear_data", "delete_confirm", "confirm_deletion"},
       text \in ConfirmTexts :
        DataInteraction(widget, text)

NextSession ==
    Choose \/ PressButton \/ UploadInSession \/ OpenData \/ Cleanup
      \/ Refresh \/ Rerun

SpecSession == Init /\ [][NextSession]_vars

\* A user who, once on the data-management page, stays in its cleanup
\* section and keeps acting on the widgets it shows.
NextCleanupFlow ==
    \/ ui.page # "data" /\ Choose
    \/ ui.page # "data" /\ PressButton
    \/ ui.page # "data" /\ UploadInSession
    \/ ui.page # "data" /\ OpenData
    \/ ui.page # "data" /\ Refresh
    \/ ui.page # "data" /\ Rerun
    \/ Cleanup

SpecCleanupFlow == Init /\ [][NextCleanupFlow]_vars /\ WF_vars(Cleanup)

\* Two browser sessions, each pressing "Submit Attendance" once.  A run reads
\* the two files (lines 343 and 376) and, in a later step, saves (line 491);
\* the other session's steps can fall in between.
\* The frame a run reconciles against when it saves: the one it loaded;
\* nothing is read again before the save.
FrameReadAtSave(loaded, stored) == stored

FrameReconciled(loaded, stored) == loaded

\* The run up to the load of the ledger.  The run keeps the group's rows of
\* the members frame (group_df) and the ledger file as read.
LoadStep(s, sunday, group, present) ==
    /\ runs[s].pc = "idle"
    /\ WidgetValues(group, present, TRUE)
    /\ ~IsEmpty(load_data_safely(member_file, TRUE).df)
    /\ ProceedsToSave(present)
    /\ runs' = [runs EXCEPT ![s] =
                   [pc |-> "loaded", sunday |-> sunday, group |-> group,
                    present |-> present,
                    members |-> FileOf(GroupRows(member_file.rows, group)),
                    master |-> master_file, saved_at |-> 0]]
    /\ UNCHANGED <<member_file, master_file, ui, master_saves>>

\* The rest of the run: the records are built, reconciled and saved.
SaveStep(s) ==
    LET r   == runs[s]
        run == attendance_page(r.members, FrameReconciled(r.master, master_file),
                               r.sunday, r.group, r.present, TRUE, TRUE, TRUE)
    IN  /\ r.pc = "loaded"
        /\ master_file' = run.master
        /\ ui' = run.ui
        /\ master_saves' = run.saves
        /\ runs' = [runs EXCEPT ![s] =
                       [r EXCEPT !.pc = "done",
                                 !.saved_at = Cardinality({t \in Sessions :
                                                  runs[t].pc = "done"}) + 1]]
        /\ UNCHANGED member_file

Load ==
    \E s \in Sessions, sunday \in Sundays, group \in Groups,
       present \in SUBSET Names : LoadStep(s, sunday, group, present)

Save == \E s \in Sessions : SaveStep(s)

NextConcurrent == Load \/ Save \/ ConfirmUpload

SpecConcurrent == Init /\ [][NextConcurrent]_vars

\* A store whose reads can raise: at most one read of a run fails.
ReadFaults == {"none", "members_read", "master_read"}

MarkAttendanceReadFault ==
    \E sunday \in Sundays, group \in Groups, present \in SUBSET Names,
       fault \in ReadFaults :
        /\ WidgetValues(group, present, fault # "members_read")
        /\ SubmitAttendance(sunday, group, present, fault # "members_read",
                            fault # "master_read", TRUE)

ViewReadFault == \E readOk \in BOOLEAN : ViewHistory(readOk)

NextReadFault == MarkAttendanceReadFault \/ ConfirmUpload \/ ViewReadFault

SpecReadFault == Init /\ [][NextReadFault]_vars

\* A store whose writes can raise, leaving the file as it was.
MarkAttendanceWriteFault ==
    \E sunday \in Sundays, group \in Groups, present \in SUBSET Names,
       writeOk \in BOOLEAN :
        /\ WidgetValues(group, present, TRUE)
        /\ SubmitAttendance(sunday, group, present, TRUE, TRUE, writeOk)

ConfirmUploadWriteFault ==
    \E rows \in SUBSET MemberRows, writeOk \in BOOLEAN : UploadRoster(rows, writeOk)

NextWriteFault == MarkAttendanceWriteFault \/ ConfirmUploadWriteFault \/ View

SpecWriteFault == Init /\ [][NextWriteFault]_vars

(***************************************************************************)
(* Properties                                                              *)
(***************************************************************************)
Ledger == master_file.rows

Roster == member_file.rows

Submitted == ui.page = "attendance" /\ "saved" \in ui.messages

\* The rows of a frame for the session (date, group), and the others.
KeyRows(df, sunday, group) ==
    SelectRows(df, {r \in DOMAIN df : r.Date = strftime(sunday) /\ r.Group = group})

OtherRows(df, sunday, group) ==
    SelectRows(df,
               {r \in DOMAIN df : ~(r.Date = strftime(sunday) /\ r.Group = group)})

\* The members of the stored roster in the group of the last run.
GroupMembers == {m \in DOMAIN Roster : m.Group = ui.group}

\* The number of ledger rows of the last run's session for a member number.
RowsOf(number) ==
    LET session == KeyRows(Ledger, ui.date, ui.group)
    IN  BagCardinality(SelectRows(session,
                                  {r \in DOMAIN session : r.Number = number}))

\* C1: the stored ledger never holds two records with the same
\* (date, group, membership number): no row is stored twice and no two
\* different rows agree on the triple.
C1_OneRecordPerTriple ==
    \A r \in DOMAIN Ledger :
        /\ Ledger[r] = 1
        /\ \A q \in DOMAIN Ledger :
              (q.Date = r.Date /\ q.Group = r.Group /\ q.Number = r.Number)
                  => q = r

\* A session was resubmitted after the roster was re-uploaded: the ledger
\* holds another session too, with a member who left the roster.
C1_Witness ==
    /\ Submitted
    /\ ui.found > 0
    /\ \E r \in DOMAIN Ledger :
          /\ ~(r.Date = strftime(ui.date) /\ r.Group = ui.group)
          /\ \A m \in DOMAIN Roster : m.Number # r.Number

\* C2: after a successful resubmission of a session, the ledger rows of its
\* (date, group) are exactly the rows built from this submission's selection
\* and the roster: nothing of the earlier submission remains.
C2_ResubmissionReplaces ==
    (Submitted /\ ui.found > 0) =>
        KeyRows(Ledger, ui.date, ui.group) =
            SetToBag({ [Date |-> strftime(ui.date), Number |-> m.Number,
                        Name |-> m.Name, Group |-> m.Group, Status |-> "Present"] :
                       m \in {x \in GroupMembers : x.Name \in ui.present} })

\* The resubmission selected fewer members than the session held before.
C2_Witness == Submitted /\ ui.found > ui.saved

\* C3: a run of the attendance page leaves the rows of every other
\* (date, group) as they were.
C3_OtherSessionsUntouched ==
    [][ui'.page = "attendance" =>
          OtherRows(master_file'.rows, ui'.date, ui'.group) =
              OtherRows(master_file.rows, ui'.date, ui'.group)]_vars

\* A session was resubmitted while the ledger holds other sessions.
C3_Witness ==
    /\ Submitted
    /\ ui.found > 0
    /\ ~IsEmpty(OtherRows(Ledger, ui.date, ui.group))

\* C4: submitting the same date, group and selection a second time against
\* the same roster leaves the ledger as the first submission left it.
C4_Idempotent ==
    \A sunday \in Sundays, group \in Groups, present \in SUBSET Names :
        (WidgetValues(group, present, TRUE) /\ ~IsEmpty(Roster)) =>
            LET once  == attendance_page(member_file, master_file, sunday, group,
                                         present, TRUE, TRUE, TRUE)
                twice == attendance_page(member_file, once.master, sunday, group,
                                         present, TRUE, TRUE, TRUE)
            IN  twice.master = once.master

\* The whole group was submitted for a session that already held a row for
\* every member of the group: the same submission made again.
C4_Witness ==
    /\ Submitted
    /\ ui.saved > 1
    /\ ui.found = ui.saved
    /\ ui.present = {m.Name : m \in GroupMembers}

\* C5 as stated: after a successful submission the session holds one row
\* for every member of the group's roster, Present if selected and Absent
\* otherwise.
C5_RowPerRosterMember ==
    Submitted =>
        /\ \A m \in GroupMembers :
              /\ RowsOf(m.Number) = 1
              /\ \A r \in DOMAIN KeyRows(Ledger, ui.date, ui.group) :
                    r.Number = m.Number =>
                        r.Status = (IF m.Name \in ui.present
                                    THEN "Present" ELSE "Absent")
        /\ BagCardinality(KeyRows(Ledger, ui.date, ui.group)) =
               Cardinality(GroupMembers)

\* C5 amended: after a successful submission the session holds exactly one
\* row, with status Present, for every member of the group's roster whose
\* full name was selected, and no row for the other members; the row count
\* is the number of selected members.
C5_PresentRowsOnly ==
    Submitted =>
        /\ \A m \in GroupMembers :
              RowsOf(m.Number) = (IF m.Name \in ui.present THEN 1 ELSE 0)
        /\ \A r \in DOMAIN KeyRows(Ledger, ui.date, ui.group) :
              r.Status = "Present"
        /\ BagCardinality(KeyRows(Ledger, ui.date, ui.group)) =
               Cardinality({m \in GroupMembers : m.Name \in ui.present})

\* A submission that left a member of the group unselected.
C5_Witness ==
    /\ Submitted
    /\ \E m \in GroupMembers : m.Name \notin ui.present
    /\ \E m \in GroupMembers : m.Name \in ui.present

C7_RejectedLeavesLedger ==
    [][(ui'.page = "attendance" /\ "empty_selection" \in ui'.messages) =>
          (master_file' = master_file /\ master_saves' = << >>)]_vars

\* An empty selection was submitted for a session that holds records.
C7_Witness ==
    /\ ui.page = "attendance"
    /\ "empty_selection" \in ui.messages
    /\ ui.found > 0
    /\ ~IsEmpty(KeyRows(Ledger, ui.date, ui.group))

\* C8: when reading the ledger raises during a submission, the records of
\* the other sessions stored before the run are still stored after it.
C8_LoadFailureKeepsOtherSessions ==
    [][(ui'.page = "attendance" /\ "load_error" \in ui'.messages) =>
          \A r \in DOMAIN master_file.rows :
              ~(r.Date = strftime(ui'.date) /\ r.Group = ui'.group) =>
                  /\ r \in DOMAIN master_file'.rows
                  /\ master_file'.rows[r] = master_file.rows[r]]_vars

\* C9: a run of the attendance page saves the ledger at most once, a
\* successful submission exactly once, and every frame it saves is the
\* reconciled ledger: the rows of the other sessions as stored before the
\* run together with the new rows of the session.
C9_SingleReconciledWrite ==
    [][ui'.page = "attendance" =>
          /\ Len(master_saves') <= 1
          /\ ("saved" \in ui'.messages => Len(master_saves') = 1)
          /\ \A i \in DOMAIN master_saves' :
                /\ OtherRows(master_saves'[i].df, ui'.date, ui'.group) =
                       OtherRows(master_file.rows, ui'.date, ui'.group)
                /\ KeyRows(master_saves'[i].df, ui'.date, ui'.group) =
                       KeyRows(master_file'.rows, ui'.date, ui'.group)
                /\ BagCardinality(KeyRows(master_saves'[i].df, ui'.date, ui'.group))
                       = ui'.saved]_vars

\* A resubmission, saved once, while the ledger holds other sessions.
C9_Witness ==
    /\ Submitted
    /\ ui.found > 0
    /\ Len(master_saves) = 1
    /\ ~IsEmpty(OtherRows(Ledger, ui.date, ui.group))

\* C10: when the save of a submission raises, the ledger file is as it was
\* before the run, the run shows the failure and no success, and the save
\* was attempted once.
C10_FailedSaveLeavesLedger ==
    [][(ui'.page = "attendance" /\ \E i \in DOMAIN master_saves' : ~master_saves'[i].ok) =>
          /\ master_file' = master_file
          /\ "save_failed" \in ui'.messages
          /\ "saved" \notin ui'.messages
          /\ Len(master_saves') = 1]_vars

\* A resubmission whose save raised, with the earlier records still stored.
C10_Witness ==
    /\ ui.page = "attendance"
    /\ "save_failed" \in ui.messages
    /\ master_saves # << >>
    /\ ui.found > 0
    /\ BagCardinality(KeyRows(Ledger, ui.date, ui.group)) = ui.found

\* The rows a session's run built: its selection against the rows it loaded.
RunOutput(s) ==
    OutputRows(runs[s].members.rows, strftime(runs[s].sunday), runs[s].present)

\* Both runs loaded the ledger before either saved, session a saved first
\* and session b second, and they target different (date, group) keys.
LoadedBeforeEitherSaved(a, b) ==
    /\ runs[a].saved_at = 1
    /\ runs[b].saved_at = 2
    /\ runs[b].master = runs[a].master
    /\ <<runs[a].sunday, runs[a].group>> # <<runs[b].sunday, runs[b].group>>

\* C11: when two sessions submit for different keys and both load the ledger
\* before either saves, the ledger after the second save is the second
\* saver's reconciliation of what it loaded: none of the records the first
\* saver wrote is stored.
C11_LostUpdate ==
    \A a \in Sessions, b \in Sessions :
        LoadedBeforeEitherSaved(a, b) =>
            /\ Ledger = UpdatedLedger(runs[b].master.rows, RunOutput(b),
                                      strftime(runs[b].sunday), runs[b].group)
            /\ \A r \in DOMAIN RunOutput(a) : r \notin DOMAIN Ledger

\* Both sessions saved rows, for different keys, and the first saver's are gone.
C11_Witness ==
    \E a \in Sessions, b \in Sessions :
        /\ LoadedBeforeEitherSaved(a, b)
        /\ ~IsEmpty(RunOutput(a))
        /\ ~IsEmpty(RunOutput(b))
        /\ IsEmpty(KeyRows(Ledger, runs[a].sunday, runs[a].group))

\* The records stored in df and not in old.
RowsAdded(old, df) == {r \in DOMAIN df : r \notin DOMAIN old}

\* C12: in every step, ledger records are added only by a saved attendance
\* submission and only for the submitted key; stored records are removed only
\* by a saved submission for their own key or by the full-ledger clear, which
\* removes them all; no other record changes; a roster upload leaves the
\* ledger as it was.
C12_LedgerChangesOnlyBySubmissionOrClear ==
    [][LET added   == RowsAdded(Ledger, master_file'.rows)
           removed == RowsAdded(master_file'.rows, Ledger)
       IN  /\ added # {} =>
                 /\ ui'.page = "attendance" /\ "saved" \in ui'.messages
                 /\ \A r \in added : MatchesKey(r, strftime(ui'.date), ui'.group)
           /\ removed # {} =>
                 \/ /\ ui'.page = "attendance" /\ "saved" \in ui'.messages
                    /\ \A r \in removed :
                           MatchesKey(r, strftime(ui'.date), ui'.group)
                 \/ /\ ui'.page = "data" /\ "cleared" \in ui'.messages
                    /\ master_file' = NoFile
           /\ \A r \in DOMAIN Ledger \cap DOMAIN master_file'.rows :
                 master_file'.rows[r] = Ledger[r]
           /\ ui'.page = "members" => master_file' = master_file]_vars

\* A roster was uploaded over a stored ledger, which is still there.
C12_Witness ==
    /\ ui.page = "members"
    /\ "uploaded" \in ui.messages
    /\ \E r \in DOMAIN Ledger : \A m \in DOMAIN Roster : m.Number # r.Number

\* A run of the history page leaves both files as they were.
ViewingLeavesFiles ==
    ui'.page = "history" =>
        /\ master_file' = master_file
        /\ member_file' = member_file

\* Under the given quick filters, what the filters select from the stored
\* ledger does not depend on when they are applied.
SameRecordsAtAnyTime(quick_filters) ==
    \A selected_date \in Sundays, selected_group \in Groups \cup {AllGroups},
       quick_filter \in quick_filters, now \in Clock :
        history_filter(Ledger, selected_date, selected_group, quick_filter, now)
          = history_filter(Ledger, selected_date, selected_group, quick_filter,
                           WeekDays)

\* C13 as stated: viewing leaves the stored ledger and roster as they were,
\* and the same filters on the same ledger select the same records whenever
\* they are applied.
C13_SameFiltersSameRecords ==
    [][ViewingLeavesFiles]_vars /\ []SameRecordsAtAnyTime(QuickFilters)

\* C13, amended: viewing leaves the stored ledger and roster as they were;
\* under the quick filters "Selected Date" and "All Time" the same filters on
\* the same ledger select the same records at any time.
C13_ViewingReadOnly ==
    [][ViewingLeavesFiles]_vars
      /\ []SameRecordsAtAnyTime({"Selected Date", "All Time"})

\* The history page shows records of a stored ledger.
C13_Witness ==
    /\ ui.page = "history"
    /\ ui.shown > 0
    /\ ui.shown < BagCardinality(Ledger)

\* The stored rows of the group whose Date cell satisfies a condition on texts.
StoredFor(group, texts) ==
    SelectRows(Ledger, {r \in DOMAIN Ledger : r.Group = group /\ r.Date \in texts})

DateTexts == [fmt : ParsedFormats \cup LegacyFormats, day : Sundays] \cup {NaN}

\* C14 as stated: on every saved submission every Date cell of the written
\* ledger is in the YYYY-MM-DD form, and every record stored for the same
\* calendar date and group, in whatever format its date is written, is
\* matched (counted as existing) and superseded.
C14_AnyFormatSuperseded ==
    [][(ui'.page = "attendance" /\ "saved" \in ui'.messages) =>
          /\ \A r \in DOMAIN master_file'.rows : r.Date.fmt = "iso"
          /\ ui'.found = BagCardinality(
                 StoredFor(ui'.group, {t \in DateTexts : t.day = ui'.date}))
          /\ BagCardinality(KeyRows(master_file'.rows, ui'.date, ui'.group))
               = ui'.saved]_vars

\* C14, amended: on every saved submission every Date cell of the written
\* ledger is in the YYYY-MM-DD form or empty; the records matched and
\* superseded are those of the group whose stored date text pd.to_datetime
\* parses to the submitted date, whatever the format; a record whose date text
\* does not parse is never matched: it is kept, with its Date cell emptied.
C14_ParsedDatesSuperseded ==
    [][(ui'.page = "attendance" /\ "saved" \in ui'.messages) =>
          /\ \A r \in DOMAIN master_file'.rows : r.Date.fmt \in {"iso", "nan"}
          /\ ui'.found = BagCardinality(
                 StoredFor(ui'.group,
                           {t \in DateTexts : to_datetime(t) = ui'.date}))
          /\ BagCardinality(KeyRows(master_file'.rows, ui'.date, ui'.group))
               = ui'.saved
          /\ \A r \in DOMAIN Ledger :
                 to_datetime(r.Date) = NaT =>
                     /\ [r EXCEPT !.Date = NaN] \in DOMAIN master_file'.rows
                     /\ master_file'.rows[[r EXCEPT !.Date = NaN]] >= Ledger[r]]_vars

\* A submission found more stored records for its key than the group has
\* members: the rows of the legacy file written MM/DD/YYYY, which it replaced.
C14_Witness ==
    /\ Submitted
    /\ ui.found > Cardinality(GroupMembers)
    /\ BagCardinality(KeyRows(Ledger, ui.date, ui.group)) = ui.saved

\* C15: a run of the attendance page over an empty roster shows no widget and
\* saves nothing; any other run is for a group of the stored roster; and every
\* record a submission writes is of that group and carries the membership
\* number of a roster member of that group.
C15_RecordsOfRosterGroup ==
    [][ui'.page = "attendance" =>
          LET written == RowsAdded(Ledger, master_file'.rows)
                           \cup DOMAIN KeyRows(master_file'.rows, ui'.date, ui'.group)
          IN  /\ IsEmpty(Roster) =>
                    /\ "no_members" \in ui'.messages
                    /\ master_saves' = << >>
                    /\ master_file' = master_file
              /\ ~IsEmpty(Roster) => \E m \in DOMAIN Roster : m.Group = ui'.group
              /\ "saved" \in ui'.messages =>
                    \A r \in written :
                        /\ r.Group # ""
                        /\ r.Group = ui'.group
                        /\ \E m \in DOMAIN Roster :
                               m.Number = r.Number /\ m.Group = r.Group]_vars

\* A saved submission for a group of a roster that has two groups.
C15_Witness ==
    /\ Submitted
    /\ ui.saved > 0
    /\ \E m \in DOMAIN Roster : m.Group # ui.group
    /\ \A r \in DOMAIN KeyRows(Ledger, ui.date, ui.group) :
           \E m \in GroupMembers : m.Number = r.Number

\* C16: a saved submission reports, as the number of members marked present
\* and as the number of records saved, the number of rows it stored for the
\* key, and as the number of existing records the number of rows stored for
\* the key before it, all of which it discarded.
C16_ReportedCounts ==
    [][(ui'.page = "attendance" /\ "saved" \in ui'.messages) =>
          /\ ui'.marked
               = BagCardinality(KeyRows(master_file'.rows, ui'.date, ui'.group))
          /\ ui'.saved
               = BagCardinality(KeyRows(master_file'.rows, ui'.date, ui'.group))
          /\ ui'.found = BagCardinality(KeyRows(Ledger, ui'.date, ui'.group))
          /\ OtherRows(master_file'.rows, ui'.date, ui'.group)
               = OtherRows(Ledger, ui'.date, ui'.group)]_vars

\* C19: after a saved submission, whichever members of the group the user
\* picked in the multiselect (any set of members whose names are the
\* selection), the members with a stored row for the session are exactly
\* the members picked.
C19_OnlyPickedMembersRecorded ==
    Submitted =>
        \A picked \in SUBSET GroupMembers :
            {m.Name : m \in picked} = ui.present =>
                \A m \in GroupMembers : RowsOf(m.Number) = 1 <=> m \in picked

\* C17: a run of the upload section on a file that lacks a required column,
\* with "Confirm Upload" pressed or not, shows the missing-columns error and
\* leaves the stored roster as it was; and the roster never changes in a run
\* that shows that error.
C17_MissingColumnRejected ==
    [][/\ \A columns \in SUBSET required_cols, confirm_upload \in BOOLEAN :
             (columns # required_cols
                /\ UploadFile(columns, MemberRows, confirm_upload, TRUE)) =>
                 /\ member_file' = member_file
                 /\ "missing_columns" \in ui'.messages
       /\ "missing_columns" \in ui'.messages => member_file' = member_file]_vars

\* A file without all the columns was refused and the roster stored is kept.
C17_Witness ==
    /\ ui.page = "members"
    /\ "missing_columns" \in ui.messages
    /\ ~IsEmpty(Roster)

\* C18: after a confirmed upload of a file that has the required columns, the
\* stored roster is the uploaded member list, row for row and cell for cell,
\* and so holds no member of the previous roster that is not in the upload.
C18_RosterEqualsUpload ==
    [][\A rows \in (SUBSET MemberRows) \cup (SUBSET DatedMemberRows) :
           UploadRoster(rows, TRUE) =>
               /\ member_file'.exists
               /\ member_file'.rows = SetToBag(rows)]_vars

\* C20: a submission with an empty selection leaves the ledger as it was,
\* every saved submission stores at least one row for its key, and in every
\* step a (date, group) that had records keeps at least one, unless the step
\* is the full-ledger clear, which removes the file.
C20_SessionNeverEmptied ==
    [][/\ (ui'.page = "attendance" /\ ui'.present = {}) =>
              master_file' = master_file
       /\ (ui'.page = "attendance" /\ "saved" \in ui'.messages) =>
              ~IsEmpty(KeyRows(master_file'.rows, ui'.date, ui'.group))
       /\ \A sunday \in Sundays, group \in Groups :
              (/\ ~IsEmpty(KeyRows(Ledger, sunday, group))
               /\ IsEmpty(KeyRows(master_file'.rows, sunday, group))) =>
                  /\ ui'.page = "data"
                  /\ "cleared" \in ui'.messages
                  /\ master_file' = NoFile]_vars

\* A resubmission replaced the records of its key by fewer records.
C20_Witness ==
    /\ Submitted
    /\ ui.found > ui.saved
    /\ BagCardinality(KeyRows(Ledger, ui.date, ui.group)) = ui.saved
    /\ ui.saved > 0

\* The (date, group, selection) values the attendance page can submit over
\* the stored roster: a group of the roster and a non-empty set of names of
\* its members.
Submissions ==
    {sub \in [sunday : Sundays, group : Groups, present : SUBSET Names] :
        /\ sub.group \in available_groups(Roster)
        /\ sub.present # {}
        /\ sub.present \subseteq multiselect_options(GroupRows(Roster, sub.group))}

\* The ledger file after one saved submission over the stored roster.
SubmittedTo(master, sub) ==
    attendance_page(member_file, master, sub.sunday, sub.group, sub.present,
                    TRUE, TRUE, TRUE).master

\* C21: over the stored roster and from the stored ledger, two saved
\* submissions for different (date, group) keys leave the same ledger records
\* in either order (each pair of different dates is taken once, the earlier
\* date as a).
C21_SubmissionsCommute ==
    \A a \in Submissions, b \in Submissions :
        (a.sunday < b.sunday \/ (a.sunday = b.sunday /\ a.group # b.group)) =>
            SubmittedTo(SubmittedTo(master_file, a), b).rows
              = SubmittedTo(SubmittedTo(master_file, b), a).rows

\* Two sessions are stored, the second submitted after the first, and the
\* ledger is what the opposite order would have left as well.
C21_Witness ==
    /\ Submitted
    /\ ui.found = 0
    /\ \E r \in DOMAIN Ledger : ~MatchesKey(r, strftime(ui.date), ui.group)
    /\ \E b \in Submissions :
           /\ <<b.sunday, b.group>> # <<ui.date, ui.group>>
           /\ SubmittedTo(SubmittedTo(master_file, b),
                          [sunday |-> ui.date, group |-> ui.group,
                           present |-> ui.present]).rows = Ledger

\* C22: a run of the data-management page changes the ledger file only by
\* removing it, and only when "Clear All Attendance Data" read True, the
\* confirmation box held exactly DELETE and "Confirm Deletion" read True in
\* that same run; with any other values of the three widgets the run leaves
\* the ledger file as it was.
C22_DeletedOnlyWhenConfirmed ==
    [][/\ (ui'.page = "data" /\ master_file' # master_file) =>
              /\ master_file' = NoFile
              /\ ui'.pressed = {"clear_data", "confirm_deletion"}
              /\ ui'.delete_confirm = "DELETE"
       /\ \A clear_all \in BOOLEAN, confirm \in ConfirmTexts,
             confirm_deletion \in BOOLEAN :
              (/\ ClearAttendance(clear_all, confirm, confirm_deletion)
               /\ ~(clear_all /\ confirm = "DELETE" /\ confirm_deletion)) =>
                  master_file' = master_file]_vars

\* The first button was pressed over a stored ledger and the word was typed
\* in lower case: the ledger is still there.
C22_Witness ==
    /\ ui.page = "data"
    /\ ui.pressed = {"clear_data"}
    /\ ui.delete_confirm = "delete"
    /\ ~IsEmpty(Ledger)

\* In a session with one interaction per run, no run removes the ledger file.
LedgerFileNeverRemoved == [][master_file.exists => master_file'.exists]_vars

\* The user has typed DELETE in the confirmation box that the first button
\* brought up, and "Confirm Deletion" is not on the page.
ConfirmButtonMissing ==
    /\ ui.page = "data"
    /\ ui.pressed = {}
    /\ ~ui.confirm_shown
    /\ master_file.exists

\* C23: once the user has pressed "Clear All Attendance Data" over a stored
\* ledger, and goes on through the confirmation (types DELETE, presses
\* "Confirm Deletion"), one interaction per run, the ledger file is
\* eventually removed.
C23_EventuallyCleared ==
    (ui.page = "data" /\ "clear_data" \in ui.pressed /\ master_file.exists)
        ~> ~master_file.exists

\* C24: the run that follows the st.rerun() of "Select All" has all the
\* filtered members of the group as its selection, the run that follows
\* "Clear All" the empty selection; a submission pressed next saves that
\* selection.
C24_SelectAllSelectsAll ==
    [][(ui.rerun /\ ui.page = "attendance") =>
          /\ "select_all" \in ui.pressed =>
                 ui'.present = multiselect_options(GroupRows(Roster, ui.group))
          /\ "clear_all" \in ui.pressed => ui'.present = {}]_vars

\* C25: the run that follows a rerun requested by the application (after
\* Select All, Clear All, a confirmed upload, a confirmed clear or Refresh)
\* requests no rerun, and no run ends with select_all_members or
\* clear_all_members set in the session.
C25_NoRerunLoop ==
    [][ui.rerun => ~ui'.rerun]_vars /\ [](ui.session_flags = {})

\* "Select All" was pressed: its run ended in st.rerun() with the flag deleted.
C25_Witness ==
    /\ ui.page = "attendance"
    /\ ui.pressed = {"select_all"}
    /\ ui.rerun
    /\ ui.session_flags = {}

====
